---- MODULE Spec2Model ----
(***************************************************************************)
(* Model of the quality validation driver                                  *)
(* (quality/src/testdriver/validate_quality.cpp): the version gate, the    *)
(* single initialize call, the partition of the manifest into shards, the  *)
(* fork loop, the per-shard worker runQuality and the parent's join loop.  *)
(***************************************************************************)
EXTENDS Integers, Sequences, FiniteSets, TLC

\* ---------------------------------------------------------------- bounds
\* largest value of -t (numForks) explored
MaxForks == 3
\* largest number of manifest records explored
MaxRecs == 3

\* ------------------------------------------------------- program constants
\* exit codes of the harness and of the workers (util.h)
SUCCESS == 0
FAILURE == 1
NOT_IMPLEMENTED == 2

\* versions the harness build expects (main, lines 122-125)
currAPIMajorVersion == 4
currAPIMinorVersion == 1
currStructsMajorVersion == 3
currStructsMinorVersion == 0

\* ReturnCode enumerators used by the model, and their underlying integers
ReturnCodes == {"Success", "UnknownError", "ConfigError", "FaceDetectionError",
                "NotImplemented"}

CodeValue(c) ==
    CASE c = "Success" -> 0
      [] c = "UnknownError" -> 1
      [] c = "ConfigError" -> 2
      [] c = "FaceDetectionError" -> 8
      [] c = "NotImplemented" -> 14

\* statuses the opaque algorithm may return from vectorQuality
VQReturns == {"Success", "FaceDetectionError", "NotImplemented"}
\* statuses the opaque algorithm may return from initialize
InitReturns == {"Success", "ConfigError"}

\* versions a vendor library may declare (the expected one and older/newer ones)
DeclaredStructs == {<<3, 0>>, <<3, 1>>, <<2, 0>>}
DeclaredAPI == {<<4, 1>>, <<4, 0>>, <<5, 1>>}

\* ------------------------------------------------------------- manifest
\* a manifest record is a line "id imagePath desc"; the k-th line of a manifest
\* names the k-th image
IdPool == <<"r1", "r2", "r3", "r4", "r5", "r6">>
PathPool == <<"p1", "p2", "p3", "p4", "p5", "p6">>

Record(k) == <<IdPool[k], PathPool[k], "iso">>

\* the manifests explored: every length up to MaxRecs
RecordPool == <<Record(1), Record(2), Record(3), Record(4), Record(5), Record(6)>>

Manifests == {SubSeq(RecordPool, 1, m) : m \in 0..MaxRecs}

\* the whitespace-separated tokens of a text file given as its lines
RECURSIVE Tokens(_)
Tokens(lines) ==
    IF lines = <<>> THEN <<>>
    ELSE Head(lines) \o Tokens(Tail(lines))

\* header line of a log (runQuality, lines 49-55)
HeaderLine == <<"id", "image", "returnCode", "bb", "measures">>

\* paths: the manifest named with -i, the empty path of a default-constructed
\* string, and the shard written for block k, which has the path k
ManifestPath == 0
NoPath == -1

\* exit code of usage(), line 112
EXIT_FAILURE == 1

Procs == 1..MaxForks
LogIdx == 0..(MaxForks - 1)
\* the content of a path at which there is no file: a value no file has (every
\* line of a manifest, shard or log has three fields or more)
Absent == <<<<"absent">>>>

\* ------------------------------------------------------------------ state
VARIABLES
    structsVer,      \* FRVT_STRUCTS_{MAJOR,MINOR}_VERSION declared by the library
    apiVer,          \* API_{MAJOR,MINOR}_VERSION declared by the library
    argv,            \* the command line after argv[0]
    manifest,        \* file system: lines of the manifest file, or Absent
    inputFile,       \* main's inputFile: the path given with -i
    usagePrinted,    \* usage() was called
    initRet,         \* status initialize returned, "none" before the call
    splitRet,        \* "ok" or "failed" as splitInputFile returned SUCCESS or not, "none" before the call
    ppc,             \* position of the parent in main
    exitStatus,      \* main's exitStatus
    numForks,        \* main's numForks
    initCalls,       \* number of initialize calls so far
    inputFileVector, \* shard paths returned by splitInputFile
    shardFile,       \* file system: shard path -> lines, or Absent
    logFile,         \* file system: log index k (outputStem.log.k) -> lines, or Absent
    i,               \* main's i (fork loop index)
    parent,          \* main's parent flag
    wpc,             \* position of each child process
    wino,            \* shard path given to each child (inputFile)
    wlog,            \* log index given to each child (outputLog)
    wshard,          \* lines of the shard as the child's inputStream opened it
    wpos,            \* tokens of the shard consumed by the child's inputStream
    wcur,            \* id, imagePath, desc last read by the child
    wret,            \* the child's ret.code
    wcalls,          \* statuses vectorQuality returned to the child, in call order
    wexit,           \* exit code of a child that returned from main
    wfail,           \* what made the child raise SIGTERM, "none" if nothing did
    wimgs,           \* image paths the child passed to vectorQuality, in call order
    reaped,          \* children the parent has reaped with wait()
    lastWait,        \* what the parent's latest wait() returned: a child or 0 (none)
    gateMsg          \* the version diagnostic printed by main, NoMessage if none

svars == <<inputFile, usagePrinted, initRet, splitRet>>
pvars == <<gateMsg, structsVer, apiVer, argv, ppc, exitStatus, numForks, initCalls,
           inputFileVector, i, parent, reaped, lastWait, svars>>
wvars == <<wpc, wino, wlog, wshard, wpos, wcur, wret, wcalls, wexit, wfail, wimgs>>
fvars == <<manifest, shardFile, logFile>>
vars == <<pvars, wvars, fvars>>

\* ------------------------------------------------------------ version gate
\* the two comparisons of main, lines 128-129 and 139-140
StructsVersionOK(v) ==
    ~((v[1] # currStructsMajorVersion) \/ (v[2] # currStructsMinorVersion))

\* variant: only the major number of the API version is compared
APIVersionOK_MajorOnly(v) ==
    ~(v[1] # currAPIMajorVersion)

APIVersionOK(v) ==
    ~((v[1] # currAPIMajorVersion) \/ (v[2] # currAPIMinorVersion))

\* no diagnostic printed
NoMessage == [pair |-> "none", actual |-> <<0, 0>>, expected |-> <<0, 0>>]

\* the message of lines 130-135: the header named, the declared version and
\* the version to re-build with
StructsMessage(v) ==
    [pair |-> "structs", actual |-> v,
     expected |-> <<currStructsMajorVersion, currStructsMinorVersion>>]

\* the message of lines 141-146
APIMessage(v) ==
    [pair |-> "api", actual |-> v,
     expected |-> <<currAPIMajorVersion, currStructsMinorVersion>>]

VersionGate ==
    /\ ppc = "gate"
    /\ IF ~StructsVersionOK(structsVer)
       THEN /\ gateMsg' = StructsMessage(structsVer)
            /\ ppc' = "done"
            /\ exitStatus' = FAILURE
       ELSE IF ~APIVersionOK(apiVer)
       THEN /\ gateMsg' = APIMessage(apiVer)
            /\ ppc' = "done"
            /\ exitStatus' = FAILURE
       ELSE /\ ppc' = "cli"
            /\ UNCHANGED <<exitStatus, gateMsg>>
    /\ UNCHANGED <<structsVer, apiVer, argv, numForks, initCalls,
                   inputFileVector, i, parent, reaped, lastWait>>
    /\ UNCHANGED <<svars, wvars, fvars>>

\* ------------------------------------------------------------ command line
\* the command lines explored: no action; the action with -i and the default
\* or an explicit -t; without -i; with an unrecognized flag; with an unknown
\* action; with a flag that has no value after it
NumStr == <<"1", "2", "3", "4", "5", "6">>

ArgLines ==
    {<<>>,
     <<"vectorQ", "-i", "in">>,
     <<"vectorQ">>,
     <<"vectorQ", "-t", "2">>,
     <<"vectorQ", "-i", "in", "-x">>,
     <<"bogus", "-i", "in">>,
     <<"vectorQ", "-c", "cfg", "-i">>}
    \cup {<<"vectorQ", "-i", "in", "-t", NumStr[n]>> : n \in 2..MaxForks}

\* the flags the loop of lines 161-176 recognizes
KnownFlags == {"-c", "-o", "-h", "-i", "-t"}

\* atoi on the strings explored: the number a digit string denotes, else 0
Atoi(str) ==
    IF \E n \in DOMAIN NumStr : NumStr[n] = str
    THEN CHOOSE n \in DOMAIN NumStr : NumStr[n] = str
    ELSE 0

\* the file a path string names: "in" is the manifest, nothing else is a file
PathOf(str) == IF str = "in" THEN ManifestPath ELSE NoPath

\* mapStringToAction[actionstr]: the action a command names
MapStringToAction(str) == IF str = "vectorQ" THEN "VectorQ" ELSE "Unknown"

\* one flag and its value stored (lines 162-171); -c, -o and -h set strings
\* the model does not follow
StoreFlag(acc, flag, val) ==
    CASE flag = "-i" -> [acc EXCEPT !.inputFile = PathOf(val)]
      [] flag = "-t" -> [acc EXCEPT !.numForks = Atoi(val)]
      [] OTHER -> acc

\* variant: an unrecognized flag is skipped instead of ending in usage()
RECURSIVE ParseFlags_IgnoreUnknown(_, _, _)
ParseFlags_IgnoreUnknown(args, j, acc) ==
    IF j > Len(args) THEN acc
    ELSE IF args[j] \notin KnownFlags THEN ParseFlags_IgnoreUnknown(args, j + 1, acc)
    ELSE IF j + 1 > Len(args) THEN [acc EXCEPT !.res = "null", !.flag = args[j]]
    ELSE ParseFlags_IgnoreUnknown(args, j + 2, StoreFlag(acc, args[j], args[j + 1]))

\* the loop of lines 161-176 from position j of the command line: res is
\* "usage" at an unrecognized flag and "null" when the value of the last flag
\* is argv[argc]
RECURSIVE ParseFlags(_, _, _)
ParseFlags(args, j, acc) ==
    IF j > Len(args) THEN acc
    ELSE IF args[j] \notin KnownFlags THEN [acc EXCEPT !.res = "usage"]
    ELSE IF j + 1 > Len(args) THEN [acc EXCEPT !.res = "null", !.flag = args[j]]
    ELSE ParseFlags(args, j + 2, StoreFlag(acc, args[j], args[j + 1]))

\* the locals of lines 154-159 before the loop
FlagDefaults == [res |-> "ok", flag |-> "", inputFile |-> NoPath, numForks |-> 1]

\* usage(), lines 108-113
Usage ==
    /\ usagePrinted' = TRUE
    /\ exitStatus' = EXIT_FAILURE
    /\ ppc' = "done"
    /\ UNCHANGED <<inputFile, numForks>>

\* the rest of lines 178-185 once the flags are stored
CheckAction(acc) ==
    IF MapStringToAction(argv[1]) # "VectorQ"
    THEN Usage
    ELSE /\ inputFile' = acc.inputFile
         /\ numForks' = acc.numForks
         /\ ppc' = "init"
         /\ UNCHANGED <<usagePrinted, exitStatus>>

\* lines 150-185; a string built from the null pointer argv[argc] either
\* kills the process or reads as the empty string
ParseArgs ==
    /\ ppc = "cli"
    /\ IF Len(argv) + 1 < 2
       THEN Usage
       ELSE LET r == ParseFlags(argv, 2, FlagDefaults) IN
            CASE r.res = "usage" -> Usage
              [] r.res = "null" ->
                   \/ /\ ppc' = "crashed"
                      /\ UNCHANGED <<inputFile, numForks, usagePrinted, exitStatus>>
                   \/ CheckAction(StoreFlag(r, r.flag, ""))
              [] OTHER -> CheckAction(r)
    /\ UNCHANGED <<gateMsg, structsVer, apiVer, argv, initCalls, inputFileVector, i,
                   parent, reaped, lastWait, initRet, splitRet>>
    /\ UNCHANGED <<wvars, fvars>>

\* -------------------------------------------------------------- initialize
\* variant: the status initialize returns is not looked at
Initialize_IgnoreStatus ==
    /\ ppc = "init"
    /\ initCalls' = initCalls + 1
    /\ \E st \in InitReturns : initRet' = st
    /\ ppc' = "split"
    /\ UNCHANGED <<gateMsg, structsVer, apiVer, argv, numForks, exitStatus,
                   inputFileVector, i, parent, reaped, lastWait>>
    /\ UNCHANGED <<inputFile, usagePrinted, splitRet>>
    /\ UNCHANGED <<wvars, fvars>>

\* getImplementation and the single initialize call, lines 187-195
Initialize ==
    /\ ppc = "init"
    /\ initCalls' = initCalls + 1
    /\ \E st \in InitReturns :
         /\ initRet' = st
         /\ IF st # "Success"
            THEN /\ ppc' = "done"
                 /\ exitStatus' = FAILURE
            ELSE /\ ppc' = "split"
                 /\ UNCHANGED exitStatus
    /\ UNCHANGED <<gateMsg, structsVer, apiVer, argv, numForks,
                   inputFileVector, i, parent, reaped, lastWait>>
    /\ UNCHANGED <<inputFile, usagePrinted, splitRet>>
    /\ UNCHANGED <<wvars, fvars>>

\* --------------------------------------------------------------- partition
\* splitInputFile: n contiguous blocks of the manifest, sizes differing by at
\* most one, the larger blocks first
ShardSize(m, n, k) ==
    (m \div n) + (IF k <= (m % n) THEN 1 ELSE 0)

\* variant: the remainder is ignored when a block's start is computed
ShardStart_NoRemainder(m, n, k) ==
    (k - 1) * (m \div n)

ShardStart(m, n, k) ==
    ((k - 1) * (m \div n)) + (IF (k - 1) <= (m % n) THEN k - 1 ELSE m % n)

ShardLines(lines, n, k) ==
    SubSeq(lines,
           ShardStart(Len(lines), n, k) + 1,
           ShardStart(Len(lines), n, k) + ShardSize(Len(lines), n, k))

\* the contents of the file at a path, Absent if there is none
FileAt(path) ==
    IF path = ManifestPath THEN manifest
    ELSE IF path \in Procs THEN shardFile[path]
    ELSE Absent

\* the call of splitInputFile in main, lines 197-202; the shard written for
\* block k gets the path k; the split fails when the manifest cannot be read
\* or a shard cannot be written
SplitInputFile ==
    /\ ppc = "split"
    /\ \E ok \in BOOLEAN :
         IF ok /\ FileAt(inputFile) # Absent
         THEN /\ inputFileVector' = [k \in 1..numForks |-> k]
              /\ shardFile' = [k \in Procs |->
                                 IF k <= numForks
                                 THEN ShardLines(FileAt(inputFile), numForks, k)
                                 ELSE shardFile[k]]
              /\ splitRet' = "ok"
              /\ ppc' = "fork"
              /\ UNCHANGED exitStatus
         ELSE /\ splitRet' = "failed"
              /\ ppc' = "done"
              /\ exitStatus' = FAILURE
              /\ UNCHANGED <<inputFileVector, shardFile>>
    /\ UNCHANGED <<gateMsg, structsVer, apiVer, argv, numForks, initCalls,
                   i, parent, reaped, lastWait>>
    /\ UNCHANGED <<inputFile, usagePrinted, initRet>>
    /\ UNCHANGED <<wvars, manifest, logFile>>

\* ---------------------------------------------------------------- fork loop
\* variant: every child runs initialize itself before runQuality
ForkChild_Reinit ==
    /\ ppc = "fork"
    /\ i < Len(inputFileVector)
    /\ wpc' = [wpc EXCEPT ![i + 1] = "open_in"]
    /\ wino' = [wino EXCEPT ![i + 1] = inputFileVector[i + 1]]
    /\ wlog' = [wlog EXCEPT ![i + 1] = i]
    /\ parent' = TRUE
    /\ i' = i + 1
    /\ initCalls' = initCalls + 1
    /\ UNCHANGED <<gateMsg, structsVer, apiVer, argv, ppc, exitStatus, numForks,
                   inputFileVector, reaped, lastWait>>
    /\ UNCHANGED <<wshard, wpos, wcur, wret, wcalls, wexit, wfail, wimgs>>
    /\ UNCHANGED <<svars, fvars>>

\* variant: the child is given main's inputFile, the manifest, instead of the
\* loop variable that shadows it
ForkChild_OuterInputFile ==
    /\ ppc = "fork"
    /\ i < Len(inputFileVector)
    /\ wpc' = [wpc EXCEPT ![i + 1] = "open_in"]
    /\ wino' = [wino EXCEPT ![i + 1] = inputFile]
    /\ wlog' = [wlog EXCEPT ![i + 1] = i]
    /\ parent' = TRUE
    /\ i' = i + 1
    /\ UNCHANGED <<gateMsg, structsVer, apiVer, argv, ppc, exitStatus, numForks,
                   initCalls, inputFileVector, reaped, lastWait>>
    /\ UNCHANGED <<wshard, wpos, wcur, wret, wcalls, wexit, wfail, wimgs>>
    /\ UNCHANGED <<svars, fvars>>

\* variant: the log name lacks the index of the shard
ForkChild_LogNoIndex ==
    /\ ppc = "fork"
    /\ i < Len(inputFileVector)
    /\ wpc' = [wpc EXCEPT ![i + 1] = "open_in"]
    /\ wino' = [wino EXCEPT ![i + 1] = inputFileVector[i + 1]]
    /\ wlog' = [wlog EXCEPT ![i + 1] = 0]
    /\ parent' = TRUE
    /\ i' = i + 1
    /\ UNCHANGED <<gateMsg, structsVer, apiVer, argv, ppc, exitStatus, numForks,
                   initCalls, inputFileVector, reaped, lastWait>>
    /\ UNCHANGED <<wshard, wpos, wcur, wret, wcalls, wexit, wfail, wimgs>>
    /\ UNCHANGED <<svars, fvars>>

\* variant: every child is given the first shard of the list
ForkChild_FirstShard ==
    /\ ppc = "fork"
    /\ i < Len(inputFileVector)
    /\ wpc' = [wpc EXCEPT ![i + 1] = "open_in"]
    /\ wino' = [wino EXCEPT ![i + 1] = inputFileVector[1]]
    /\ wlog' = [wlog EXCEPT ![i + 1] = i]
    /\ parent' = TRUE
    /\ i' = i + 1
    /\ UNCHANGED <<gateMsg, structsVer, apiVer, argv, ppc, exitStatus, numForks,
                   initCalls, inputFileVector, reaped, lastWait>>
    /\ UNCHANGED <<wshard, wpos, wcur, wret, wcalls, wexit, wfail, wimgs>>
    /\ UNCHANGED <<svars, fvars>>

\* one iteration of the loop of lines 206-228 in which fork() returns a pid:
\* the child starts runQuality on inputFileVector[i] with log index i
ForkChild ==
    /\ ppc = "fork"
    /\ i < Len(inputFileVector)
    /\ wpc' = [wpc EXCEPT ![i + 1] = "open_in"]
    /\ wino' = [wino EXCEPT ![i + 1] = inputFileVector[i + 1]]
    /\ wlog' = [wlog EXCEPT ![i + 1] = i]
    /\ parent' = TRUE
    /\ i' = i + 1
    /\ UNCHANGED <<gateMsg, structsVer, apiVer, argv, ppc, exitStatus, numForks,
                   initCalls, inputFileVector, reaped, lastWait>>
    /\ UNCHANGED <<wshard, wpos, wcur, wret, wcalls, wexit, wfail, wimgs>>
    /\ UNCHANGED <<svars, fvars>>

\* variant: a failed fork sets the exit status
ForkError_SetsFailure ==
    /\ ppc = "fork"
    /\ i < Len(inputFileVector)
    /\ i' = i + 1
    /\ exitStatus' = FAILURE
    /\ UNCHANGED <<gateMsg, structsVer, apiVer, argv, ppc, numForks,
                   initCalls, inputFileVector, parent, reaped, lastWait>>
    /\ UNCHANGED <<svars, wvars, fvars>>

\* one iteration in which fork() returns -1 (lines 220-222)
ForkError ==
    /\ ppc = "fork"
    /\ i < Len(inputFileVector)
    /\ i' = i + 1
    /\ UNCHANGED <<gateMsg, structsVer, apiVer, argv, ppc, exitStatus, numForks,
                   initCalls, inputFileVector, parent, reaped, lastWait>>
    /\ UNCHANGED <<svars, wvars, fvars>>

\* variant: the loop may be left before the last shard
ForkLoopEnd_Early ==
    /\ ppc = "fork"
    /\ ppc' = "join"
    /\ UNCHANGED <<gateMsg, structsVer, apiVer, argv, exitStatus, numForks,
                   initCalls, inputFileVector, i, parent, reaped, lastWait>>
    /\ UNCHANGED <<svars, wvars, fvars>>

\* the range-for is exhausted
ForkLoopEnd ==
    /\ ppc = "fork"
    /\ i >= Len(inputFileVector)
    /\ ppc' = "join"
    /\ UNCHANGED <<gateMsg, structsVer, apiVer, argv, exitStatus, numForks,
                   initCalls, inputFileVector, i, parent, reaped, lastWait>>
    /\ UNCHANGED <<svars, wvars, fvars>>

\* ---------------------------------------------------------------- join loop
Forked == {c \in Procs : wpc[c] # "none"}
Terminated == {c \in Procs : wpc[c] \in {"exited", "signaled"}}
Running == Forked \ Terminated

\* exit statuses an uninitialized stat_val can decode to: WIFEXITED with any
\* exit code (3 stands for the codes no worker uses), or a signal / unknown
\* status, which sets FAILURE
GarbageStatus == {SUCCESS, FAILURE, NOT_IMPLEMENTED, 3}

\* variant: a not-implemented exit is folded into SUCCESS
StatusOf_Folded(kind, code) ==
    IF kind = "exited"
    THEN (IF code = NOT_IMPLEMENTED THEN SUCCESS ELSE code)
    ELSE FAILURE

\* variant: the WIFEXITED test is inverted
StatusOf_Inverted(kind, code) ==
    IF kind # "exited" THEN code ELSE FAILURE

\* the status decoding of lines 237-245 for a child that terminated
StatusOf(kind, code) ==
    IF kind = "exited" THEN code ELSE FAILURE

\* wait() returns a terminated child c (lines 236-246)
Wait(c) ==
    /\ ppc = "join"
    /\ parent
    /\ numForks > 0
    /\ c \in Terminated \ reaped
    /\ exitStatus' = StatusOf(wpc[c], wexit[c])
    /\ reaped' = reaped \cup {c}
    /\ lastWait' = c
    /\ numForks' = numForks - 1
    /\ UNCHANGED <<gateMsg, structsVer, apiVer, argv, ppc, initCalls,
                   inputFileVector, i, parent>>
    /\ UNCHANGED <<svars, wvars, fvars>>

\* wait() returns -1 because the process has no child left to wait for;
\* stat_val is then read uninitialized
WaitNoChild ==
    /\ ppc = "join"
    /\ parent
    /\ numForks > 0
    /\ Forked \ reaped = {}
    /\ exitStatus' \in GarbageStatus
    /\ lastWait' = 0
    /\ numForks' = numForks - 1
    /\ UNCHANGED <<gateMsg, structsVer, apiVer, argv, ppc, initCalls,
                   inputFileVector, i, parent, reaped>>
    /\ UNCHANGED <<svars, wvars, fvars>>

\* variant: the join loop is left whatever numForks is
Return_NoJoin ==
    /\ ppc = "join"
    /\ ppc' = "done"
    /\ UNCHANGED <<gateMsg, structsVer, apiVer, argv, exitStatus, numForks,
                   initCalls, inputFileVector, i, parent, reaped, lastWait>>
    /\ UNCHANGED <<svars, wvars, fvars>>

\* variant: the loop is left only when no child was forked
Return_WhenNoChild ==
    /\ ppc = "join"
    /\ ~parent
    /\ ppc' = "done"
    /\ UNCHANGED <<gateMsg, structsVer, apiVer, argv, exitStatus, numForks,
                   initCalls, inputFileVector, i, parent, reaped, lastWait>>
    /\ UNCHANGED <<svars, wvars, fvars>>

\* return exitStatus (line 250)
Return ==
    /\ ppc = "join"
    /\ ~(parent /\ numForks > 0)
    /\ ppc' = "done"
    /\ UNCHANGED <<gateMsg, structsVer, apiVer, argv, exitStatus, numForks,
                   initCalls, inputFileVector, i, parent, reaped, lastWait>>
    /\ UNCHANGED <<svars, wvars, fvars>>

\* ------------------------------------------------------- worker: runQuality
\* variant: the signal is sent to the whole process group, kill(0, SIGTERM)
RaiseSIGTERM_Group(c) ==
    wpc' = [d \in Procs |->
              IF wpc[d] \in {"none", "exited", "signaled"} THEN wpc[d] ELSE "signaled"]

\* raise(SIGTERM) with the default disposition: the calling process alone is
\* terminated by the signal
RaiseSIGTERM(c) ==
    wpc' = [wpc EXCEPT ![c] = "signaled"]

\* variant: the log is created before the shard is opened
OpenInput_LogFirst(c) ==
    /\ wpc[c] = "open_in"
    /\ logFile' = [logFile EXCEPT ![wlog[c]] = <<>>]
    /\ \E ok \in BOOLEAN :
         IF ok /\ FileAt(wino[c]) # Absent
         THEN /\ wpc' = [wpc EXCEPT ![c] = "open_log"]
              /\ wshard' = [wshard EXCEPT ![c] = FileAt(wino[c])]
              /\ UNCHANGED wfail
         ELSE /\ RaiseSIGTERM(c)
              /\ wfail' = [wfail EXCEPT ![c] = "shard"]
              /\ UNCHANGED wshard
    /\ UNCHANGED <<wimgs, wino, wlog, wpos, wcur, wret, wcalls, wexit>>
    /\ UNCHANGED <<pvars, manifest, shardFile>>

\* ifstream inputStream(inputFile), lines 35-39
OpenInput(c) ==
    /\ wpc[c] = "open_in"
    /\ \E ok \in BOOLEAN :
         IF ok /\ FileAt(wino[c]) # Absent
         THEN /\ wpc' = [wpc EXCEPT ![c] = "open_log"]
              /\ wshard' = [wshard EXCEPT ![c] = FileAt(wino[c])]
              /\ UNCHANGED wfail
         ELSE /\ RaiseSIGTERM(c)
              /\ wfail' = [wfail EXCEPT ![c] = "shard"]
              /\ UNCHANGED wshard
    /\ UNCHANGED <<wimgs, wino, wlog, wpos, wcur, wret, wcalls, wexit>>
    /\ UNCHANGED <<pvars, fvars>>

\* variant: a log that cannot be opened is reported and the worker goes on
OpenLog_NoRaise(c) ==
    /\ wpc[c] = "open_log"
    /\ \E ok \in BOOLEAN :
         IF ok
         THEN /\ wpc' = [wpc EXCEPT ![c] = "header"]
              /\ logFile' = [logFile EXCEPT ![wlog[c]] = <<>>]
              /\ UNCHANGED wfail
         ELSE /\ wpc' = [wpc EXCEPT ![c] = "header"]
              /\ wfail' = [wfail EXCEPT ![c] = "log"]
              /\ UNCHANGED logFile
    /\ UNCHANGED <<wimgs, wino, wlog, wshard, wpos, wcur, wret, wcalls, wexit>>
    /\ UNCHANGED <<pvars, manifest, shardFile>>

\* ofstream logStream(outputLog), lines 42-46: creates or truncates the log
OpenLog(c) ==
    /\ wpc[c] = "open_log"
    /\ \E ok \in BOOLEAN :
         IF ok
         THEN /\ wpc' = [wpc EXCEPT ![c] = "header"]
              /\ logFile' = [logFile EXCEPT ![wlog[c]] = <<>>]
              /\ UNCHANGED wfail
         ELSE /\ RaiseSIGTERM(c)
              /\ wfail' = [wfail EXCEPT ![c] = "log"]
              /\ UNCHANGED logFile
    /\ UNCHANGED <<wimgs, wino, wlog, wshard, wpos, wcur, wret, wcalls, wexit>>
    /\ UNCHANGED <<pvars, manifest, shardFile>>

\* a line written to the log and flushed by endl; a log that was unlinked
\* meanwhile stays absent from the directory
AppendLine(f, line) ==
    IF f = Absent THEN Absent ELSE Append(f, line)

\* variant: no header is written
WriteHeader_Skip(c) ==
    /\ wpc[c] = "header"
    /\ wpc' = [wpc EXCEPT ![c] = "read"]
    /\ UNCHANGED <<wfail, wimgs, wino, wlog, wshard, wpos, wcur, wret, wcalls, wexit>>
    /\ UNCHANGED <<pvars, fvars>>

\* the header, lines 49-55
WriteHeader(c) ==
    /\ wpc[c] = "header"
    /\ logFile' = [logFile EXCEPT ![wlog[c]] = AppendLine(@, HeaderLine)]
    /\ wpc' = [wpc EXCEPT ![c] = "read"]
    /\ UNCHANGED <<wfail, wimgs, wino, wlog, wshard, wpos, wcur, wret, wcalls, wexit>>
    /\ UNCHANGED <<pvars, manifest, shardFile>>

\* number of tokens one evaluation of the loop condition extracts
FieldsPerRecord == 3

\* inputStream >> id >> imagePath >> desc (line 59) on the tokens left
HasRecord(toks, pos) == Len(toks) - pos >= FieldsPerRecord

\* variant: the extraction starts again at the beginning of the stream
NextRecord_Rewind(toks, pos) == SubSeq(toks, 1, FieldsPerRecord)

\* the three fields extracted at position pos of the stream
NextRecord(toks, pos) == SubSeq(toks, pos + 1, pos + FieldsPerRecord)

\* the loop condition of line 59, evaluated on the open stream
ReadRecord(c) ==
    /\ wpc[c] = "read"
    /\ IF HasRecord(Tokens(wshard[c]), wpos[c])
       THEN /\ wcur' = [wcur EXCEPT ![c] = NextRecord(Tokens(wshard[c]), wpos[c])]
            /\ wpos' = [wpos EXCEPT ![c] = @ + FieldsPerRecord]
            /\ wpc' = [wpc EXCEPT ![c] = "decode"]
       ELSE /\ wpc' = [wpc EXCEPT ![c] = "rm_in"]
            /\ UNCHANGED <<wcur, wpos>>
    /\ UNCHANGED <<wfail, wimgs, wino, wlog, wshard, wret, wcalls, wexit>>
    /\ UNCHANGED <<pvars, fvars>>

\* variant: a failed decode skips the record and the loop goes on
ReadImage_Skip(c) ==
    /\ wpc[c] = "decode"
    /\ \E ok \in BOOLEAN :
         IF ok
         THEN /\ wpc' = [wpc EXCEPT ![c] = "call"]
              /\ UNCHANGED wfail
         ELSE /\ wpc' = [wpc EXCEPT ![c] = "read"]
              /\ wfail' = [wfail EXCEPT ![c] = "image"]
    /\ UNCHANGED <<wimgs, wino, wlog, wshard, wpos, wcur, wret, wcalls, wexit>>
    /\ UNCHANGED <<pvars, fvars>>

\* readImage, lines 60-65
ReadImage(c) ==
    /\ wpc[c] = "decode"
    /\ \E ok \in BOOLEAN :
         IF ok
         THEN /\ wpc' = [wpc EXCEPT ![c] = "call"]
              /\ UNCHANGED wfail
         ELSE /\ RaiseSIGTERM(c)
              /\ wfail' = [wfail EXCEPT ![c] = "image"]
    /\ UNCHANGED <<wimgs, wino, wlog, wshard, wpos, wcur, wret, wcalls, wexit>>
    /\ UNCHANGED <<pvars, fvars>>

\* variant: every status other than Success is taken for the sentinel
IsSentinel_AnyError(code) == code # "Success"

\* variant: the status no call has set is taken for the sentinel too
IsSentinel_Unset(code) == code \in {"NotImplemented", "UnknownError"}

\* the test of lines 73-75 on the status just returned
IsSentinel(code) == code = "NotImplemented"

\* variant: the break of lines 73-75 is missing
VectorQuality_NoBreak(c) ==
    /\ wpc[c] = "call"
    /\ \E st \in VQReturns :
         /\ wret' = [wret EXCEPT ![c] = st]
         /\ wcalls' = [wcalls EXCEPT ![c] = Append(@, st)]
         /\ wimgs' = [wimgs EXCEPT ![c] = Append(@, wcur[c][2])]
         /\ wpc' = [wpc EXCEPT ![c] = "write"]
    /\ UNCHANGED <<wfail, wino, wlog, wshard, wpos, wcur, wexit>>
    /\ UNCHANGED <<pvars, fvars>>

\* ret = implPtr->vectorQuality(face, assessments) and the break, lines 67-75
VectorQuality(c) ==
    /\ wpc[c] = "call"
    /\ \E st \in VQReturns :
         /\ wret' = [wret EXCEPT ![c] = st]
         /\ wcalls' = [wcalls EXCEPT ![c] = Append(@, st)]
         /\ wimgs' = [wimgs EXCEPT ![c] = Append(@, wcur[c][2])]
         /\ wpc' = [wpc EXCEPT ![c] = IF IsSentinel(st) THEN "rm_in" ELSE "write"]
    /\ UNCHANGED <<wfail, wino, wlog, wshard, wpos, wcur, wexit>>
    /\ UNCHANGED <<pvars, fvars>>

\* a vectorQuality call that never returns
Hang(c) ==
    /\ wpc[c] = "call"
    /\ wpc' = [wpc EXCEPT ![c] = "hung"]
    /\ UNCHANGED <<wfail, wimgs, wino, wlog, wshard, wpos, wcur, wret, wcalls, wexit>>
    /\ UNCHANGED <<pvars, fvars>>

\* variant: the image path is written in the id column
Row_Swapped(rec, code) == <<rec[2], rec[1], CodeValue(code)>>

\* the data row of lines 77-90: id, imagePath and the status as an integer
\* (the bounding box and measure columns carry opaque algorithm output)
Row(rec, code) == <<rec[1], rec[2], CodeValue(code)>>

WriteRow(c) ==
    /\ wpc[c] = "write"
    /\ logFile' = [logFile EXCEPT ![wlog[c]] = AppendLine(@, Row(wcur[c], wret[c]))]
    /\ wpc' = [wpc EXCEPT ![c] = "read"]
    /\ UNCHANGED <<wfail, wimgs, wino, wlog, wshard, wpos, wcur, wret, wcalls, wexit>>
    /\ UNCHANGED <<pvars, manifest, shardFile>>

\* remove() on the path of an input file
RemoveFile(path) ==
    /\ manifest' = IF path = ManifestPath THEN Absent ELSE manifest
    /\ shardFile' = [k \in Procs |-> IF k = path THEN Absent ELSE shardFile[k]]

\* variant: the shard is closed but not removed
RemoveInput_Skip(c) ==
    /\ wpc[c] = "rm_in"
    /\ wpc' = [wpc EXCEPT ![c] = "finish"]
    /\ UNCHANGED <<wfail, wimgs, wino, wlog, wshard, wpos, wcur, wret, wcalls, wexit>>
    /\ UNCHANGED <<pvars, fvars>>

\* inputStream.close() and remove(inputFile), lines 92-96
RemoveInput(c) ==
    /\ wpc[c] = "rm_in"
    /\ RemoveFile(wino[c])
    /\ wpc' = [wpc EXCEPT ![c] = "finish"]
    /\ UNCHANGED <<wfail, wimgs, wino, wlog, wshard, wpos, wcur, wret, wcalls, wexit>>
    /\ UNCHANGED <<pvars, logFile>>

\* variant: the sentinel path returns the generic failure code
RunQualityResult_Generic(code) ==
    IF code = "NotImplemented" THEN FAILURE ELSE SUCCESS

\* variant: a last status other than Success returns the generic failure code
RunQualityResult_ErrorFails(code) ==
    IF code = "NotImplemented" THEN NOT_IMPLEMENTED
    ELSE IF code = "Success" THEN SUCCESS
    ELSE FAILURE

\* the value runQuality returns, lines 98-105
RunQualityResult(code) ==
    IF IsSentinel(code) THEN NOT_IMPLEMENTED ELSE SUCCESS

\* variant: the child leaves the switch instead of main and goes on in the
\* fork loop
Finish_Break(c) ==
    /\ wpc[c] = "finish"
    /\ logFile' = [logFile EXCEPT ![wlog[c]] = IF IsSentinel(wret[c]) THEN Absent ELSE @]
    /\ wexit' = [wexit EXCEPT ![c] = RunQualityResult(wret[c])]
    /\ wpc' = [wpc EXCEPT ![c] = "fork"]
    /\ UNCHANGED <<wfail, wimgs, wino, wlog, wshard, wpos, wcur, wret, wcalls>>
    /\ UNCHANGED <<pvars, manifest, shardFile>>

\* lines 98-105, and the child's return from main with that value (line 212)
Finish(c) ==
    /\ wpc[c] = "finish"
    /\ logFile' = [logFile EXCEPT ![wlog[c]] = IF IsSentinel(wret[c]) THEN Absent ELSE @]
    /\ wexit' = [wexit EXCEPT ![c] = RunQualityResult(wret[c])]
    /\ wpc' = [wpc EXCEPT ![c] = "exited"]
    /\ UNCHANGED <<wfail, wimgs, wino, wlog, wshard, wpos, wcur, wret, wcalls>>
    /\ UNCHANGED <<pvars, manifest, shardFile>>

\* ------------------------------------------------------------ specification
Init ==
    /\ structsVer \in DeclaredStructs
    /\ apiVer \in DeclaredAPI
    /\ argv \in ArgLines
    /\ manifest \in Manifests
    /\ inputFile = NoPath
    /\ numForks = 1
    /\ usagePrinted = FALSE
    /\ initRet = "none"
    /\ splitRet = "none"
    /\ ppc = "gate"
    /\ exitStatus = SUCCESS
    /\ initCalls = 0
    /\ inputFileVector = <<>>
    /\ shardFile = [k \in Procs |-> Absent]
    /\ logFile = [k \in LogIdx |-> Absent]
    /\ i = 0
    /\ parent = FALSE
    /\ wpc = [c \in Procs |-> "none"]
    /\ wino = [c \in Procs |-> 0]
    /\ wlog = [c \in Procs |-> 0]
    /\ wshard = [c \in Procs |-> <<>>]
    /\ wpos = [c \in Procs |-> 0]
    /\ wcur = [c \in Procs |-> <<>>]
    /\ wret = [c \in Procs |-> "UnknownError"]
    /\ wcalls = [c \in Procs |-> <<>>]
    /\ wexit = [c \in Procs |-> -1]
    /\ wfail = [c \in Procs |-> "none"]
    /\ wimgs = [c \in Procs |-> <<>>]
    /\ reaped = {}
    /\ lastWait = 0
    /\ gateMsg = NoMessage

Next ==
    \/ VersionGate
    \/ ParseArgs
    \/ Initialize
    \/ SplitInputFile
    \/ ForkChild
    \/ ForkError
    \/ ForkLoopEnd
    \/ \E c \in Procs : Wait(c)
    \/ WaitNoChild
    \/ Return
    \/ \E c \in Procs : OpenInput(c)
    \/ \E c \in Procs : OpenLog(c)
    \/ \E c \in Procs : WriteHeader(c)
    \/ \E c \in Procs : ReadRecord(c)
    \/ \E c \in Procs : ReadImage(c)
    \/ \E c \in Procs : VectorQuality(c)
    \/ \E c \in Procs : Hang(c)
    \/ \E c \in Procs : WriteRow(c)
    \/ \E c \in Procs : RemoveInput(c)
    \/ \E c \in Procs : Finish(c)

Spec == Init /\ [][Next]_vars

\* ----------------------------------------------------------------- liveness
\* the steps of the parent process
ParentStep ==
    \/ VersionGate
    \/ ParseArgs
    \/ Initialize
    \/ SplitInputFile
    \/ ForkChild
    \/ ForkError
    \/ ForkLoopEnd
    \/ \E c \in Procs : Wait(c)
    \/ WaitNoChild
    \/ Return

\* the steps of child c when every call it makes returns
WorkerStep(c) ==
    \/ OpenInput(c)
    \/ OpenLog(c)
    \/ WriteHeader(c)
    \/ ReadRecord(c)
    \/ ReadImage(c)
    \/ VectorQuality(c)
    \/ WriteRow(c)
    \/ RemoveInput(c)
    \/ Finish(c)

LiveNext == ParentStep \/ \E c \in Procs : WorkerStep(c)

\* the runs in which no call hangs and the operating system keeps scheduling
\* every process that can take a step
LiveSpec ==
    /\ Init
    /\ [][LiveNext]_vars
    /\ WF_vars(ParentStep)
    /\ \A c \in Procs : WF_vars(WorkerStep(c))

\* ------------------------------------------------------------------ claims
NShards == Len(inputFileVector)

\* the library declares a version pair other than structs 3.0 / API 4.1
VersionMismatch ==
    \/ structsVer # <<currStructsMajorVersion, currStructsMinorVersion>>
    \/ apiVer # <<currAPIMajorVersion, currAPIMinorVersion>>

\* every iteration of the fork loop produced a child
AllForked == NShards > 0 /\ Forked = 1..NShards

\* vectorQuality returned NotImplemented to child c
HitSentinel(c) == \E k \in DOMAIN wcalls[c] : wcalls[c][k] = "NotImplemented"

ExitedWith(c, code) == wpc[c] = "exited" /\ wexit[c] = code

\* C1: when main returns in the parent, the exit status is SUCCESS only if
\* every child exited normally with SUCCESS, and it is FAILURE if any child was
\* terminated by a signal or exited with a non-success code. Stated for the
\* runs in which every fork succeeded and every child either exited with
\* SUCCESS or was terminated by a signal.
C1_AggregateExitStatus ==
    (/\ ppc = "done"
     /\ AllForked
     /\ \A c \in Forked : ExitedWith(c, SUCCESS) \/ wpc[c] = "signaled")
    => /\ (exitStatus = SUCCESS => \A c \in Forked : ExitedWith(c, SUCCESS))
       /\ ((\E c \in Forked : wpc[c] = "signaled") => exitStatus = FAILURE)

\* C2: with a declared version pair that differs from the expected one, main
\* only ever returns FAILURE, and nothing else has happened: no initialize
\* call, no partition, no child, no vectorQuality call, no shard or log file.
C2_VersionGateStrict ==
    VersionMismatch =>
        /\ ppc \in {"gate", "done"}
        /\ (ppc = "done" => exitStatus = FAILURE)
        /\ initCalls = 0
        /\ inputFileVector = <<>>
        /\ Forked = {}
        /\ \A c \in Procs : wcalls[c] = <<>>
        /\ \A k \in Procs : shardFile[k] = Absent
        /\ \A k \in LogIdx : logFile[k] = Absent

\* main has returned FAILURE on a library that declares API version 4.0
C2_Witness ==
    /\ ppc = "done"
    /\ exitStatus = FAILURE
    /\ structsVer = <<3, 0>>
    /\ apiVer = <<4, 0>>

C4_SentinelStops ==
    /\ [](\A c \in Procs :
            (HitSentinel(c) /\ logFile[wlog[c]] # Absent) =>
                Len(logFile[wlog[c]]) = Len(wcalls[c]))
    /\ [][\A c \in Procs :
            HitSentinel(c) =>
                /\ wpos'[c] = wpos[c]
                /\ wcalls'[c] = wcalls[c]
                /\ logFile'[wlog[c]] \in {logFile[wlog[c]], Absent}]_vars

\* a worker has terminated on the sentinel with records of its shard unread
C4_Witness ==
    \E c \in Procs :
        /\ wpc[c] = "exited"
        /\ HitSentinel(c)
        /\ wpos[c] < Len(Tokens(wshard[c]))

\* the row of record k of child c is on its way to the log or in it: the
\* child is past the write that follows call k
RowWritten(c, k) == k < Len(wcalls[c]) \/ wpc[c] # "write"

\* C5: a status other than Success and NotImplemented returned for record k
\* yields the data row of record k, with the status as an integer, and does
\* not stop the shard: a worker that leaves the loop without the sentinel has
\* read every record and called vectorQuality for each.
C5_ErrorStatusIsLogged ==
    \A c \in Procs :
        /\ \A k \in DOMAIN wcalls[c] :
             (/\ wcalls[c][k] \notin {"Success", "NotImplemented"}
              /\ RowWritten(c, k)
              /\ ~HitSentinel(c)) =>
                 /\ logFile[wlog[c]] # Absent
                 /\ Len(logFile[wlog[c]]) >= k + 1
                 /\ logFile[wlog[c]][k + 1] =
                        <<wshard[c][k][1], wshard[c][k][2], CodeValue(wcalls[c][k])>>
        /\ (wpc[c] \in {"rm_in", "finish", "exited"} /\ ~HitSentinel(c)) =>
                 /\ Len(wcalls[c]) = Len(wshard[c])
                 /\ wpos[c] = Len(Tokens(wshard[c]))

\* a worker exited after an error status on a record that was not its last
C5_Witness ==
    \E c \in Procs :
        /\ ExitedWith(c, SUCCESS)
        /\ Len(wcalls[c]) >= 2
        /\ wcalls[c][1] = "FaceDetectionError"

\* the id column of the data rows of a log (the header is its first line)
LogIds(log) == [k \in 1..(Len(log) - 1) |-> log[k + 1][1]]

\* the id field of the lines of a shard
ShardIds(lines) == [k \in 1..Len(lines) |-> lines[k][1]]

\* C6: the log of a worker that exhausted its shard without the sentinel has
\* the ids of the shard's lines, in the same order, as the ids of its rows.
C6_OrderPreserved ==
    \A c \in Procs :
        (wpc[c] = "exited" /\ ~HitSentinel(c)) =>
            /\ logFile[wlog[c]] # Absent
            /\ Len(logFile[wlog[c]]) >= 1
            /\ LogIds(logFile[wlog[c]]) = ShardIds(wshard[c])

\* a worker finished a shard of two records or more while a sibling was alive
C6_Witness ==
    \E c, d \in Procs :
        /\ c # d
        /\ wpc[c] = "exited"
        /\ ~HitSentinel(c)
        /\ Len(wshard[c]) >= 2
        /\ wpc[d] \in {"read", "decode", "call", "write"}

\* the lines of the shard files of the partitioner's list, in list order
RECURSIVE ConcatShards(_)
ConcatShards(paths) ==
    IF paths = <<>> THEN <<>>
    ELSE shardFile[Head(paths)] \o ConcatShards(Tail(paths))

RECURSIVE SumLens(_)
SumLens(paths) ==
    IF paths = <<>> THEN 0
    ELSE Len(shardFile[Head(paths)]) + SumLens(Tail(paths))

\* C7: when splitInputFile has returned and no child exists yet, there is one
\* shard file per requested fork and the shards concatenated in list order
\* are the manifest; their sizes sum to the number of manifest records.
C7_PartitionComplete ==
    (ppc = "fork" /\ i = 0) =>
        /\ NShards = numForks
        /\ \A k \in 1..NShards : shardFile[inputFileVector[k]] # Absent
        /\ ConcatShards(inputFileVector) = manifest
        /\ SumLens(inputFileVector) = Len(manifest)

\* three records were split over two shards
C7_Witness ==
    /\ ppc = "fork"
    /\ i = 0
    /\ Len(manifest) = 3
    /\ NShards = 2
    /\ Len(shardFile[1]) # Len(shardFile[2])

\* C8: main has not returned in the parent while a child it forked is
\* unreaped; in particular a child hung in vectorQuality keeps the parent
\* from returning. Only forked children ever call vectorQuality.
C8_JoinBlocks ==
    /\ (ppc = "done" => Forked \ reaped = {})
    /\ ((\E c \in Procs : wpc[c] = "hung") => ppc # "done")
    /\ \A c \in Procs : (wcalls[c] # <<>> => c \in Forked)

\* the parent sits in the join loop with every child reaped but a hung one
C8_Witness ==
    \E c \in Procs :
        /\ wpc[c] = "hung"
        /\ ppc = "join"
        /\ numForks > 0
        /\ reaped # {}
        /\ reaped = Forked \ {c}

\* the log child c leaves behind, from what the child itself went through:
\* the header and one row per call that returned
OwnLog(c) ==
    <<HeaderLine>> \o
        [k \in 1..Len(wcalls[c]) |->
            <<wshard[c][k][1], wshard[c][k][2], CodeValue(wcalls[c][k])>>]

C11_InitializeOnce ==
    /\ [](/\ initCalls <= 1
          /\ ((Forked # {} \/ i > 0) => initCalls = 1))
    /\ [][initCalls' # initCalls =>
            /\ ppc = "init"
            /\ Forked = {}
            /\ i = 0
            /\ wpc' = wpc]_vars

\* main has returned after a run with two children or more
C11_Witness ==
    /\ ppc = "done"
    /\ initCalls = 1
    /\ Cardinality(Forked) >= 2
    /\ Forked \subseteq Terminated

\* C12: after initialize returned a status other than Success, or
\* splitInputFile returned a failure, main has returned FAILURE, no child was
\* forked, vectorQuality was never called and no log exists; after an
\* initialize failure splitInputFile was not called and no shard file exists.
C12_SetupFailure ==
    /\ (initRet \notin {"none", "Success"} \/ splitRet = "failed") =>
          /\ ppc = "done"
          /\ exitStatus = FAILURE
          /\ Forked = {}
          /\ i = 0
          /\ \A c \in Procs : wcalls[c] = <<>>
          /\ \A k \in LogIdx : logFile[k] = Absent
    /\ initRet \notin {"none", "Success"} =>
          /\ splitRet = "none"
          /\ inputFileVector = <<>>
          /\ \A k \in Procs : shardFile[k] = Absent

\* initialize failed on a command line that names the manifest
C12_Witness ==
    /\ initRet = "ConfigError"
    /\ ppc = "done"
    /\ inputFile = ManifestPath

C14_EndStateCleanup ==
    (ppc = "done" /\ exitStatus = SUCCESS /\ AllForked) =>
        \A k \in 1..NShards :
            /\ FileAt(inputFileVector[k]) = Absent
            /\ (logFile[k - 1] # Absent <=> ~HitSentinel(k))

\* C15: no step of any process removes or changes the manifest, and no
\* worker is ever given the manifest path as the file to read and remove.
C15_ManifestUntouched ==
    /\ [](\A c \in Forked : wino[c] # ManifestPath)
    /\ [][manifest' = manifest]_vars

\* main has returned after its workers removed shards, the manifest in place
C15_Witness ==
    /\ ppc = "done"
    /\ Cardinality(Forked) >= 2
    /\ \E c \in Forked : wpc[c] = "exited" /\ HitSentinel(c)
    /\ \E c \in Forked : wpc[c] = "signaled"
    /\ manifest # Absent
    /\ Len(manifest) >= 2

\* C16: two different workers never have the same shard input path or the
\* same log; the child forked for position k (0-based) of the list has that
\* shard and the log of index k.
C16_PathsDisjoint ==
    /\ \A c, d \in Forked :
         c # d => (wino[c] # wino[d] /\ wlog[c] # wlog[d])
    /\ \A c \in Forked :
         /\ c <= NShards
         /\ wino[c] = inputFileVector[c]
         /\ wlog[c] = c - 1

\* three workers are writing their logs at the same time
C16_Witness ==
    /\ Cardinality(Forked) = 3
    /\ \A c \in Forked : wpc[c] = "write"

UnrecognizedFlag ==
    \E j \in 2..Len(argv) : j % 2 = 0 /\ argv[j] \notin {"-c", "-o", "-h", "-i", "-t"}

\* the last word of the command line is a flag, its value is missing
DanglingFlag == Len(argv) >= 2 /\ Len(argv) % 2 = 0 /\ ~UnrecognizedFlag

\* the command is there and is not the one action of the harness
UnknownAction == Len(argv) >= 1 /\ argv[1] # "vectorQ"

\* the action argument or one of the five flags is not on the command line
MissingFlag ==
    \/ Len(argv) = 0
    \/ \E f \in {"-c", "-o", "-h", "-i", "-t"} :
           \A j \in 2..Len(argv) : argv[j] # f

\* the -i flag is not on the command line
NoInputFlag == \A j \in 2..Len(argv) : argv[j] # "-i"

\* the command lines lines 150-185 end in usage()
Rejected ==
    \/ Len(argv) = 0
    \/ UnrecognizedFlag
    \/ (UnknownAction /\ ~DanglingFlag)

\* the state after usage(): message printed, exit(EXIT_FAILURE), the algorithm
\* untouched and nothing forked
RejectedState ==
    /\ usagePrinted
    /\ ppc = "done"
    /\ exitStatus = EXIT_FAILURE
    /\ initCalls = 0
    /\ initRet = "none"
    /\ Forked = {}
    /\ \A c \in Procs : wcalls[c] = <<>>

\* C18 as stated: past the command-line section, every command line with a
\* missing flag or action, an unrecognized flag or an unknown action (every
\* flag given having its value) has ended in usage() with the algorithm
\* untouched and nothing forked.
C18_CLIRejection ==
    (/\ ~VersionMismatch
     /\ ppc \notin {"gate", "cli"}
     /\ ~DanglingFlag
     /\ (MissingFlag \/ UnrecognizedFlag \/ UnknownAction)) => RejectedState

\* C18 amended: once the version gate is passed, a command line without the
\* action, with an unrecognized flag or (every flag having its value) with an
\* unknown action ends in usage(); a command line with a known action that
\* only lacks flags is not rejected: nothing is printed by usage(),
\* initialize is called, and when it is -i that is missing the partition
\* fails and main returns FAILURE with nothing forked.
C18_RejectionCases ==
    (~VersionMismatch /\ ppc \notin {"gate", "cli"}) =>
        /\ Rejected => RejectedState
        /\ (~Rejected /\ ~DanglingFlag) =>
              /\ ~usagePrinted
              /\ ppc # "crashed"
              /\ (ppc # "init" => initCalls = 1)
              /\ (NoInputFlag /\ ppc = "done" /\ initRet = "Success") =>
                    /\ splitRet = "failed"
                    /\ exitStatus = FAILURE
                    /\ Forked = {}

\* usage() has ended a run with an unrecognized flag after a valid -i
C18_Witness ==
    /\ usagePrinted
    /\ ppc = "done"
    /\ UnrecognizedFlag
    /\ ~NoInputFlag
    /\ ~UnknownAction

\* the image paths of the lines of a shard
ShardImages(lines) == [k \in 1..Len(lines) |-> lines[k][2]]

\* C19: a vectorQuality call is a step of a forked worker that leaves the
\* parent's state alone; a worker never makes more calls than its shard has
\* records, the images it passed are those of the first records of the shard
\* in order, and a worker that left the loop without the sentinel has passed
\* the image of every record exactly once, in record order.
C19_CallsPerRecord ==
    /\ [](\A c \in Procs :
            /\ wcalls[c] # <<>> => c \in Forked
            /\ Len(wimgs[c]) = Len(wcalls[c])
            /\ Len(wcalls[c]) <= Len(wshard[c])
            /\ wimgs[c] = SubSeq(ShardImages(wshard[c]), 1, Len(wimgs[c]))
            /\ (wpc[c] \in {"rm_in", "finish", "exited"} /\ ~HitSentinel(c)) =>
                  wimgs[c] = ShardImages(wshard[c]))
    /\ [][wcalls' # wcalls =>
            /\ pvars' = pvars
            /\ \E c \in Forked :
                 /\ wpc[c] = "call"
                 /\ Len(wcalls'[c]) = Len(wcalls[c]) + 1
                 /\ \A d \in Procs \ {c} : wcalls'[d] = wcalls[d]]_vars

\* one worker exhausted a shard of two records, another stopped before the
\* end of its shard
C19_Witness ==
    /\ \E c \in Procs :
         wpc[c] = "exited" /\ ~HitSentinel(c) /\ Len(wcalls[c]) >= 2
    /\ \E d \in Procs :
         wpc[d] \in {"exited", "signaled"} /\ Len(wcalls[d]) < Len(wshard[d])

\* C20: a worker whose readImage failed on record k of its shard is
\* terminated by the signal there and stays so: it made the calls for the
\* k - 1 earlier records only, its log is the header and their rows, it has no
\* exit code, and nothing of it changes afterwards.
C20_DecodeFailureFatal ==
    /\ [](\A c \in Procs : wfail[c] = "image" =>
            /\ wpc[c] = "signaled"
            /\ wexit[c] = -1
            /\ wpos[c] >= FieldsPerRecord
            /\ wcur[c] = wshard[c][wpos[c] \div FieldsPerRecord]
            /\ Len(wcalls[c]) = (wpos[c] \div FieldsPerRecord) - 1
            /\ ~HitSentinel(c)
            /\ logFile[wlog[c]] = OwnLog(c)
            /\ \A k \in 2..Len(logFile[wlog[c]]) :
                 logFile[wlog[c]][k][1] # wcur[c][1])
    /\ [][\A c \in Procs : wfail[c] = "image" =>
            /\ wfail'[c] = "image"
            /\ wpc'[c] = "signaled"
            /\ wcalls'[c] = wcalls[c]
            /\ logFile'[wlog[c]] = logFile[wlog[c]]]_vars

\* readImage failed on the second record of a shard of three, after one row
C20_Witness ==
    \E c \in Procs :
        /\ wfail[c] = "image"
        /\ wpos[c] = 2 * FieldsPerRecord
        /\ Len(wshard[c]) = 3
        /\ Len(logFile[wlog[c]]) = 2
        /\ ppc = "done"

\* vectorQuality returned to child c a status that is neither Success nor the
\* sentinel
GotErrorStatus(c) ==
    \E k \in DOMAIN wcalls[c] : wcalls[c][k] \notin {"Success", "NotImplemented"}

\* C21 as stated: a terminated worker to which the algorithm reported an
\* error status other than the sentinel (and never the sentinel) has the
\* failure outcome: it exited with FAILURE or was terminated by a signal.
C21_ErrorStatusFails ==
    \A c \in Procs :
        (wpc[c] \in {"exited", "signaled"} /\ GotErrorStatus(c) /\ ~HitSentinel(c)) =>
            (wpc[c] = "signaled" \/ wexit[c] = FAILURE)

\* C21 amended: a terminated worker has one of three outcomes: it exited with
\* SUCCESS, it exited with NOT_IMPLEMENTED, or it was terminated by the signal
\* it raised on an unopenable shard, an unopenable log or a decode failure
\* (which the parent records as FAILURE); an error status other than the
\* sentinel is not a failure: a worker that exhausted its shard with such
\* statuses and no sentinel exited with SUCCESS.
C21_WorkerOutcomes ==
    \A c \in Procs :
        /\ wpc[c] = "exited" => wexit[c] \in {SUCCESS, NOT_IMPLEMENTED}
        /\ wpc[c] = "signaled" =>
              (wfail[c] \in {"shard", "log", "image"} /\ wexit[c] = -1)
        /\ (wpc[c] = "exited" /\ GotErrorStatus(c) /\ ~HitSentinel(c)) =>
              wexit[c] = SUCCESS
        /\ (c \in reaped /\ lastWait = c) =>
              /\ exitStatus \in {SUCCESS, NOT_IMPLEMENTED, FAILURE}
              /\ (exitStatus = FAILURE <=> wpc[c] = "signaled")

\* a worker whose last call returned an error status has exited and was the
\* last child reaped
C21_Witness ==
    \E c \in Procs :
        /\ wpc[c] = "exited"
        /\ wcalls[c] # <<>>
        /\ wcalls[c][Len(wcalls[c])] = "FaceDetectionError"
        /\ lastWait = c
        /\ ppc = "done"

\* C22: the parent's steps come in the order version check, initialize,
\* partition, fork loop, join loop: initialize is called once, after the gate
\* passed and before the partition; the partition is called after a
\* successful initialize and before any fork; an iteration of the fork loop
\* comes after the partition returned and before any wait; a wait comes after
\* the last iteration of the fork loop.
C22_PhaseOrder ==
    /\ [](/\ initCalls <= 1
          /\ initCalls = 1 => ~VersionMismatch
          /\ splitRet # "none" => (initCalls = 1 /\ initRet = "Success")
          /\ (i > 0 \/ Forked # {}) => splitRet = "ok"
          /\ (reaped # {} \/ lastWait # 0) => (splitRet = "ok" /\ i = NShards))
    /\ [][/\ initCalls' # initCalls =>
               (splitRet = "none" /\ i = 0 /\ Forked = {} /\ reaped = {})
          /\ splitRet' # splitRet =>
               (initCalls = 1 /\ i = 0 /\ Forked = {} /\ reaped = {})
          /\ (i' # i \/ Forked' # Forked) =>
               (splitRet = "ok" /\ reaped = {} /\ lastWait = 0 /\ numForks' = numForks)
          /\ (reaped' # reaped \/ (splitRet # "none" /\ numForks' # numForks)) =>
               (i = NShards /\ i' = i /\ Forked' = Forked)]_vars

\* main returned after two forks and two waits
C22_Witness ==
    /\ ppc = "done"
    /\ initCalls = 1
    /\ Cardinality(Forked) >= 2
    /\ reaped = Forked

\* C23: the diagnostic printed when the gate fails names the pair that
\* mismatched, the version the library declares for it and the version
\* expected for that pair: 3.0 for the structs header, 4.1 for the API header.
C23_VersionDiagnostic ==
    ppc # "gate" =>
        /\ structsVer # <<3, 0>> =>
              gateMsg = [pair |-> "structs", actual |-> structsVer, expected |-> <<3, 0>>]
        /\ (structsVer = <<3, 0>> /\ apiVer # <<4, 1>>) =>
              gateMsg = [pair |-> "api", actual |-> apiVer, expected |-> <<4, 1>>]

\* a line with the columns of the header
IsHeader(line) == Len(line) = 5 /\ line[1] = "id" /\ line[2] = "image"

\* the header is the first line of the log, and its only header line
HeaderFirstOnce(log) ==
    /\ Len(log) >= 1
    /\ IsHeader(log[1])
    /\ \A j \in 2..Len(log) : ~IsHeader(log[j])

\* C24 as stated: at every moment every log file that exists has the header
\* as its first line, once, before every data row.
C24_HeaderAlways ==
    \A k \in LogIdx : logFile[k] # Absent => HeaderFirstOnce(logFile[k])

\* C24 amended: a log that exists is either the empty file its worker has
\* just created and is about to write the header to, or has the header as
\* its first line, once, before every data row; when the worker evaluates
\* the loop condition for the first time the log is the header alone, so a
\* worker that exited from a shard of zero records leaves a log that is the
\* header alone.
C24_HeaderFirst ==
    /\ \A k \in LogIdx : logFile[k] # Absent =>
          IF logFile[k] = <<>>
          THEN wpc[k + 1] = "header"
          ELSE HeaderFirstOnce(logFile[k])
    /\ \A c \in Procs :
          /\ (wpc[c] = "read" /\ wpos[c] = 0) => logFile[wlog[c]] = <<HeaderLine>>
          /\ (wpc[c] = "exited" /\ wshard[c] = <<>>) => logFile[wlog[c]] = <<HeaderLine>>

\* main returned; one worker left the log of an empty shard, another a log
\* with one row
C24_Witness ==
    /\ ppc = "done"
    /\ \E c \in Procs :
         wpc[c] = "exited" /\ wshard[c] = <<>> /\ logFile[wlog[c]] = <<HeaderLine>>
    /\ \E d \in Procs :
         wpc[d] = "exited" /\ logFile[wlog[d]] # Absent /\ Len(logFile[wlog[d]]) = 2

\* what the join loop records for a terminated child: its exit code, or
\* FAILURE when a signal terminated it
Outcome(c) == IF wpc[c] = "exited" THEN wexit[c] ELSE FAILURE

\* C25: the value main returns after reaping children is the outcome of the
\* child reaped last: the last wait() reaped a child, and exitStatus is that
\* child's exit code, or FAILURE when the child was signalled.
C25_LastWriterWins ==
    (ppc = "done" /\ reaped # {}) =>
        /\ lastWait \in reaped
        /\ exitStatus = Outcome(lastWait)

\* C26: a worker exits with SUCCESS exactly when it left the read loop at the
\* end of its shard, every record evaluated and no call having returned
\* NotImplemented; it exits with NOT_IMPLEMENTED exactly when a call returned
\* NotImplemented; a worker that could not open its shard or its log or
\* decode an image is terminated by a signal and has no exit code; no worker
\* exits with FAILURE.
C26_ExitOutcome ==
    \A c \in Procs :
        /\ wexit[c] \in {-1, SUCCESS, NOT_IMPLEMENTED}
        /\ wexit[c] # -1 <=> wpc[c] = "exited"
        /\ wexit[c] = SUCCESS <=>
              /\ wpc[c] = "exited"
              /\ ~HitSentinel(c)
              /\ wfail[c] = "none"
              /\ Len(wcalls[c]) = Len(wshard[c])
              /\ wpos[c] = Len(Tokens(wshard[c]))
        /\ wexit[c] = NOT_IMPLEMENTED <=> (wpc[c] = "exited" /\ HitSentinel(c))
        /\ wfail[c] # "none" <=> wpc[c] = "signaled"
        /\ HitSentinel(c) => wpc[c] \in {"rm_in", "finish", "exited"}

\* the three outcomes side by side, the SUCCESS one after an error status
C26_Witness ==
    \E c, d, e \in Procs :
        /\ wpc[c] = "exited" /\ wexit[c] = SUCCESS /\ GotErrorStatus(c)
        /\ wpc[d] = "exited" /\ wexit[d] = NOT_IMPLEMENTED
        /\ wpc[e] = "signaled" /\ wfail[e] = "log"

\* a shard at position k of the list whose fork failed
ForkFailed(k) == k <= i /\ wpc[k] = "none"

\* C27: an iteration of the fork loop in which fork() fails only advances the
\* loop: the exit status, the files and the workers are as before; the shard
\* of that iteration is never evaluated, its file stays as the partition
\* wrote it and no log of its index is created, while later children still
\* get the log index of their position; when every fork failed main returns
\* SUCCESS without a single wait().
C27_ForkFailure ==
    /\ [](/\ \A k \in 1..NShards : ForkFailed(k) =>
                /\ wcalls[k] = <<>>
                /\ shardFile[k] # Absent
                /\ shardFile[k] = ShardLines(manifest, NShards, k)
                /\ logFile[k - 1] = Absent
          /\ \A c \in Forked : wlog[c] = c - 1 /\ wino[c] = inputFileVector[c]
          /\ (ppc = "done" /\ splitRet = "ok" /\ Forked = {}) =>
                /\ exitStatus = SUCCESS
                /\ ~parent
                /\ reaped = {} /\ lastWait = 0 /\ numForks = NShards)
    /\ [][(i' = i + 1 /\ Forked' = Forked) =>
             /\ exitStatus' = exitStatus
             /\ ppc' = ppc /\ ppc = "fork"
             /\ parent' = parent
             /\ numForks' = numForks
             /\ wvars' = wvars
             /\ fvars' = fvars]_vars

\* main returned; the first fork failed, the second child wrote log 1
C27_Witness ==
    /\ ppc = "done"
    /\ NShards >= 2
    /\ ForkFailed(1)
    /\ wpc[2] = "exited"
    /\ logFile[1] # Absent

\* C28: the join loop calls wait() once for each child forked and only while
\* an unreaped child exists: the number of wait() calls made is the number of
\* children reaped, and when main returns every forked child has been reaped
\* and numForks has counted down the children, not more.
C28_JoinAccounting ==
    splitRet = "ok" =>
        /\ NShards - numForks = Cardinality(reaped)
        /\ (ppc = "done" => reaped = Forked)

\* the rows of the first n lines of a shard with the statuses returned for them
RowsOf(lines, calls, n) ==
    [k \in 1..n |-> <<lines[k][1], lines[k][2], CodeValue(calls[k])>>]

\* C29: a worker terminated by the signal leaves its files as they were at
\* that point, also after main returned: after a decode failure on record k
\* the shard file is still there and the log is the header followed by the
\* rows of records 1..k-1; after an unopenable log the shard file is still
\* there; after an unopenable shard there is no log of that worker.
C29_CrashArtifacts ==
    \A c \in Procs :
        /\ wfail[c] = "image" =>
              /\ shardFile[wino[c]] = wshard[c]
              /\ shardFile[wino[c]] # Absent
              /\ logFile[wlog[c]] # Absent
              /\ logFile[wlog[c]] =
                    <<HeaderLine>> \o
                    RowsOf(wshard[c], wcalls[c], (wpos[c] \div FieldsPerRecord) - 1)
        /\ wfail[c] = "log" =>
              /\ shardFile[wino[c]] = wshard[c]
              /\ shardFile[wino[c]] # Absent
        /\ wfail[c] = "shard" =>
              /\ logFile[wlog[c]] = Absent
              /\ shardFile[wino[c]] = ShardLines(manifest, NShards, c)

\* main returned after the three kinds of crash, the decode failure on the
\* second record of its shard
C29_Witness ==
    /\ ppc = "done"
    /\ \E c \in Procs :
         wfail[c] = "image" /\ wpos[c] = 2 * FieldsPerRecord /\ Len(logFile[wlog[c]]) = 2
    /\ \E d \in Procs : wfail[d] \in {"log", "shard"}

\* C30 as stated: when main has returned after the partition, the join loop
\* has made as many wait() iterations as the initial numForks, that is,
\* numForks has been counted down to zero.
C30_WaitCount ==
    (ppc = "done" /\ splitRet = "ok") => numForks = 0

\* C30 amended: when no call hangs, the parent eventually leaves main (or is
\* killed on the missing value of a trailing flag) and from then on stays
\* there with every forked worker terminated; when main returns after the
\* partition it has made as many wait() iterations as the initial numForks if
\* some fork succeeded and none if every fork failed, and a run that ends
\* before the partition succeeds makes none.
C30_Termination ==
    /\ <>[](/\ ppc \in {"done", "crashed"}
            /\ \A c \in Procs : wpc[c] \in {"none", "exited", "signaled"})
    /\ [](ppc = "done" =>
            /\ (splitRet = "ok" /\ Forked # {}) => (numForks = 0 /\ reaped = Forked)
            /\ (splitRet = "ok" /\ Forked = {}) => (numForks = NShards /\ lastWait = 0)
            /\ splitRet # "ok" => (reaped = {} /\ lastWait = 0 /\ Forked = {}))

\* main returned after three waits for three workers that all terminated
C30_Witness ==
    /\ ppc = "done"
    /\ Cardinality(Forked) = 3
    /\ reaped = Forked
    /\ numForks = 0
    /\ \E c \in Forked : Len(wcalls[c]) >= 1

\* C31: when main returns after every fork succeeded and every child exited
\* with SUCCESS, the exit status is SUCCESS and every child has been reaped,
\* whichever child was reaped last.
C31_AllSuccess ==
    (/\ ppc = "done"
     /\ NShards > 0
     /\ Forked = 1..NShards
     /\ \A c \in Forked : wpc[c] = "exited" /\ wexit[c] = SUCCESS) =>
        /\ exitStatus = SUCCESS
        /\ reaped = Forked

\* three children exited with SUCCESS and the first one forked was reaped last
C31_Witness ==
    /\ ppc = "done"
    /\ Forked = 1..3
    /\ \A c \in Forked : wpc[c] = "exited" /\ wexit[c] = SUCCESS
    /\ reaped = Forked
    /\ lastWait = 1
    /\ exitStatus = SUCCESS

\* positions of a child: not forked, inside runQuality, or terminated
WorkerPositions ==
    {"none", "open_in", "open_log", "header", "read", "decode", "call", "write",
     "rm_in", "finish", "exited", "signaled", "hung"}

\* C32: a child is only ever inside runQuality or terminated, never in main's
\* fork or join loop; a process is created only by an iteration of the
\* parent's fork loop, one per iteration, so never more processes than shard
\* paths; a step of a worker leaves the parent's variables alone; a worker
\* keeps the one shard and log it was forked with and exits with the value
\* runQuality returned.
C32_WorkersNeverFork ==
    /\ [](/\ \A c \in Procs : wpc[c] \in WorkerPositions
          /\ Cardinality(Forked) <= i
          /\ i <= NShards
          /\ \A c \in Procs : wpc[c] = "exited" => wexit[c] \in {SUCCESS, NOT_IMPLEMENTED})
    /\ [][/\ Forked' # Forked =>
               /\ ppc = "fork" /\ ppc' = "fork"
               /\ i' = i + 1
               /\ Forked' = Forked \cup {i + 1}
               /\ i + 1 \notin Forked
          /\ \A c \in Forked :
               /\ wino'[c] = wino[c]
               /\ wlog'[c] = wlog[c]
               /\ wpc[c] \notin {"open_in"} => wshard'[c] = wshard[c]
          /\ (wvars' # wvars /\ Forked' = Forked) => pvars' = pvars]_vars

\* three workers were forked by the parent, evaluated their shards and were
\* reaped
C32_Witness ==
    /\ ppc = "done"
    /\ i = 3
    /\ Forked = 1..3
    /\ reaped = Forked
    /\ \A c \in Forked : wpc[c] = "exited" /\ wshard[c] = ShardLines(manifest, 3, c)
    /\ Len(manifest) = 3

\* child c was forked for a shard of zero records
EmptyShard(c) == c \in Forked /\ ShardLines(manifest, NShards, c) = <<>>

====
